---- MODULE Spec2Model ----
(***************************************************************************)
(* RotatedTranslatedShape / DecoratedShape (JoltPhysics).                  *)
(*                                                                         *)
(* Numbers are fixed point: a quaternion component q stands for q/10, a    *)
(* rotation matrix entry m for m/100, a position or centre-of-mass         *)
(* component p for p/100.  Scales are plain integers.                      *)
(***************************************************************************)
EXTENDS Integers, Sequences, FiniteSets, TLC

\* ------------------------------------------------------------------ bounds
\* Number of RotatedTranslatedShapeSettings objects (maximum nesting depth).
NumSettings == 3
\* The Create() call counter of a settings object saturates here.
MaxCalls == 2

\* ------------------------------------------------------------- identifiers
\* A shape reference is <<settings object, constructor run>> for a shape built
\* from settings, <<0, k>> for the external leaf shapes, <<0, 0>> for nullptr.
NullShape == <<0, 0>>
NullSettings == 0
\* Leaf shapes (external Shape implementations) and leaf settings objects.
LeafShapeA == <<0, 1>>
LeafShapeB == <<0, 2>>
LeafShapes == {LeafShapeA, LeafShapeB}
\* A default-constructed RotatedTranslatedShape, the target of a restore.
FreshShape == <<0, 3>>
DecoratorSettings == 1..NumSettings
LeafSettingsOk == NumSettings + 1
LeafSettingsBad == NumSettings + 2
LeafSettings == {LeafSettingsOk, LeafSettingsBad}

\* ------------------------------------------------------------------- maths
Vec3Add(a, b) == <<a[1] + b[1], a[2] + b[2], a[3] + b[3]>>

QuatIdentity == <<0, 0, 0, 10>>

\* Quat::IsClose(rhs, 1.0e-12f): squared distance within the tolerance
\* (the tolerance is one grid step of the fixed-point quaternion).
QuatIsClose(q, r) ==
  LET d == [i \in 1..4 |-> q[i] - r[i]]
  IN  d[1] * d[1] + d[2] * d[2] + d[3] * d[3] + d[4] * d[4] <= 1

\* Mat44::sRotation(q), the 3x3 part, entries in hundredths.
sRotation(q) ==
  LET x == q[1]
      y == q[2]
      z == q[3]
      w == q[4]
  IN  << <<100 - 2 * (y * y + z * z), 2 * (x * y - z * w), 2 * (x * z + y * w)>>,
         <<2 * (x * y + z * w), 100 - 2 * (x * x + z * z), 2 * (y * z - x * w)>>,
         <<2 * (x * z - y * w), 2 * (y * z + x * w), 100 - 2 * (x * x + y * y)>> >>

\* Quat * Vec3: the vector rotated by the quaternion.
QuatRotate(q, v) ==
  LET m == sRotation(q)
  IN  [i \in 1..3 |-> (m[i][1] * v[1] + m[i][2] * v[2] + m[i][3] * v[3]) \div 100]

\* ------------------------------------------------------------------ Result
\* Result<Ref<Shape>>: empty, holding a shape, or holding an error.
EmptyResult == [state |-> "Empty", shape |-> NullShape, error |-> ""]
ResultSet(sh) == [state |-> "Valid", shape |-> sh, error |-> ""]
ResultSetError(msg) == [state |-> "Error", shape |-> NullShape, error |-> msg]
IsEmpty(r) == r.state = "Empty"
IsValid(r) == r.state = "Valid"
HasError(r) == r.state = "Error"
ResultGet(r) == r.shape

\* -------------------------------------------------------------- leaf world
\* Centre of mass of the external leaf shapes.
LeafCenterOfMass(sh) == IF sh = LeafShapeA THEN <<0, 100, 0>> ELSE <<100, 200, 0>>

\* ShapeSettings::Create() of a leaf settings object: a shape or an error.
LeafCreate(s) ==
  IF s = LeafSettingsOk THEN ResultSet(LeafShapeB) ELSE ResultSetError("Leaf is invalid")

\* Shape::GetCenterOfMass() through the heap h.
GetCenterOfMass(h, sh) ==
  IF sh \in LeafShapes THEN LeafCenterOfMass(sh) ELSE h[sh].mCenterOfMass

\* The object allocated by the n-th constructor run on settings s.
NewShapeId(s, n) == <<s, n>>

VARIABLES
  settings,   \* settings object -> its fields and mCachedResult
  shapes,     \* heap: shape id -> RotatedTranslatedShape fields
  runs,       \* settings object -> constructor runs on it
  calls,      \* settings object -> Create() calls on it (saturating)
  firstResult,\* settings object -> result of its first Create() call
  lastResult, \* settings object -> result of its latest Create() call
  ctorLog,    \* one record per constructor run
  stream,     \* the binary stream: the numbers written and not yet read
  saved,      \* per shape state in the stream: what was saved, and from where
  restoredFrom, \* shape -> the saved state its latest RestoreBinaryState read
  subShapes,  \* the ShapeList SaveSubShapeState last filled
  leafAccepts,\* the scales the leaf shape's IsValidScale accepts
  scaleQuery, \* the latest IsValidScale call and its answer
  visited,    \* the VisitedShapes set shared by the GetStatsRecursive calls
  total,      \* the sum of the Stats those calls returned
  statsCalls, \* the shapes GetStatsRecursive was called on, in order
  call,       \* the dispatcher invocation in progress
  bridged     \* the latest bridge run: what it was given, what it invoked

createVars == <<settings, shapes, runs, calls, firstResult, lastResult, ctorLog>>
lifeVars == <<stream, saved, restoredFrom, subShapes>>
scaleVars == <<leafAccepts, scaleQuery>>
statsVars == <<visited, total, statsCalls>>
bridgeVars == <<call, bridged>>
vars == <<createVars, lifeVars, scaleVars, statsVars, bridgeVars>>

\* ------------------------------------------------------------ construction
Min(a, b) == IF a < b THEN a ELSE b

\* The program state threaded through a (recursive) Create() call.
ProgramState ==
  [settings |-> settings, shapes |-> shapes, runs |-> runs, calls |-> calls,
   firstResult |-> firstResult, lastResult |-> lastResult, ctorLog |-> ctorLog]

RECURSIVE SettingsCreate(_, _, _)

\* DecoratedShape.cpp:27, "Check that there's a shape".
InnerShapeMissing(in) == in.mInnerShape = NullSettings /\ in.mInnerShapePtr = NullShape

\* Mutant: the error is not set.
MissingInnerResultUnset == EmptyResult

\* DecoratedShape.cpp:29, the result of a construction with no inner shape.
MissingInnerResult == ResultSetError("Inner shape is null!")

\* Mutant: the child's failure is re-labelled as this layer's.
PropagatedResultRelabelled(child_result) == ResultSetError("Inner shape is null!")

\* DecoratedShape.cpp:44, outResult = child_result.
PropagatedResult(child_result) == child_result

\* Mutant: the derived constructor does not look at the result.
CtorReturnsEarlyNever(outResult) == FALSE

\* RotatedTranslatedShape.cpp:40, the derived constructor's early return.
CtorReturnsEarly(outResult) == HasError(outResult)

\* Mutant: only a cached shape is reused, a cached error is rebuilt.
MustBuildUnlessValid(cached) == ~IsValid(cached)

\* RotatedTranslatedShape.cpp:32, whether Create() has to build the shape.
MustBuild(cached) == IsEmpty(cached)

\* DecoratedShape.cpp:42-47: the constructor after the child's Create().
\* c is the state and result of that call.
DecoratedShapeCtorAfterChild(c, s) ==
  IF ~IsValid(c.result)
  THEN [st |-> c.st, inner |-> NullShape, out |-> PropagatedResult(c.result),
        child |-> c.result, built |-> TRUE]
  ELSE [st |-> c.st, inner |-> ResultGet(c.result),
        out |-> c.st.settings[s].mCachedResult,
        child |-> c.result, built |-> TRUE]

\* DecoratedShape::DecoratedShape: resolves mInnerShape.  outResult is the
\* settings object's mCachedResult, passed by reference.  Yields the state
\* after the child's Create(), the inner shape assigned (NullShape when the
\* constructor returned early) and outResult.
DecoratedShapeCtor(st, s, ub) ==
  IF InnerShapeMissing(st.settings[s])
  THEN [st |-> st, inner |-> NullShape, out |-> MissingInnerResult,
        child |-> EmptyResult, built |-> FALSE]
  ELSE IF st.settings[s].mInnerShapePtr # NullShape
  THEN [st |-> st, inner |-> st.settings[s].mInnerShapePtr,
        out |-> st.settings[s].mCachedResult,
        child |-> EmptyResult, built |-> FALSE]
  ELSE DecoratedShapeCtorAfterChild(SettingsCreate(st, st.settings[s].mInnerShape, ub), s)

\* RotatedTranslatedShape.cpp:40-50: the constructor's own body, run on a new
\* object after the base constructor left b.  ub is what a read through a null
\* mInnerShape yields.  The object stays on the heap only while the result
\* refers to it.
RotatedTranslatedShapeCtorBody(b, s, ub) ==
  LET in == b.st.settings[s]
      this == NewShapeId(s, b.st.runs[s] + 1)
      entry == [settings |-> s, this |-> this, inner |-> b.inner,
                built |-> b.built, child |-> b.child, base |-> b.out]
  IN  IF CtorReturnsEarly(b.out)
      THEN [b.st EXCEPT
              !.settings[s].mCachedResult = b.out,
              !.runs[s] = @ + 1,
              !.ctorLog = @ \cup {entry @@ [derived |-> FALSE, deref |-> FALSE,
                                            out |-> b.out]}]
      ELSE LET com == IF b.inner = NullShape THEN ub
                      ELSE GetCenterOfMass(b.st.shapes, b.inner)
               obj == [mUserData |-> in.mUserData,
                       mInnerShape |-> b.inner,
                       mCenterOfMass |-> Vec3Add(in.mPosition, QuatRotate(in.mRotation, com)),
                       mRotation |-> in.mRotation,
                       mIsRotationIdentity |-> QuatIsClose(in.mRotation, QuatIdentity)]
           IN  [b.st EXCEPT
                  !.settings[s].mCachedResult = ResultSet(this),
                  !.shapes = @ @@ (this :> obj),
                  !.runs[s] = @ + 1,
                  !.ctorLog = @ \cup {entry @@ [derived |-> TRUE,
                                                deref |-> b.inner = NullShape,
                                                out |-> ResultSet(this)]}]

\* RotatedTranslatedShape::RotatedTranslatedShape: the base constructor, then
\* the body.
RotatedTranslatedShapeCtor(st, s, ub) ==
  RotatedTranslatedShapeCtorBody(DecoratedShapeCtor(st, s, ub), s, ub)

\* RotatedTranslatedShape.cpp:34: Create() returns mCachedResult.  before is
\* the state at the call, after the state once the shape is built if need be.
CreateReturns(before, after, s) ==
  [st |-> [after EXCEPT !.calls[s] = Min(@ + 1, MaxCalls),
                        !.firstResult[s] = IF before.calls[s] = 0
                                           THEN after.settings[s].mCachedResult ELSE @,
                        !.lastResult[s] = after.settings[s].mCachedResult],
   result |-> after.settings[s].mCachedResult]

\* RotatedTranslatedShapeSettings::Create: builds the shape into mCachedResult
\* when that is empty, and returns mCachedResult.
RotatedTranslatedShapeSettingsCreate(st, s, ub) ==
  CreateReturns(st,
                IF MustBuild(st.settings[s].mCachedResult)
                THEN RotatedTranslatedShapeCtor(st, s, ub)
                ELSE st,
                s)

\* ShapeSettings::Create, the virtual call: a leaf's or a decorator's.
SettingsCreate(st, s, ub) ==
  IF s \in LeafSettings
  THEN [st |-> st, result |-> LeafCreate(s)]
  ELSE RotatedTranslatedShapeSettingsCreate(st, s, ub)

\* ------------------------------------------------------------------ inputs
Positions == {<<0, 0, 0>>, <<100, 0, -200>>}
\* identity, within tolerance of identity, -identity (the same rotation, not
\* close), 120 degrees about (1,1,1), about 74 degrees about Z.
Rotations == {<<0, 0, 0, 10>>, <<0, 0, 1, 10>>, <<0, 0, 0, -10>>, <<5, 5, 5, 5>>, <<0, 0, 6, 8>>}
\* What reading the centre of mass through a null inner shape may yield.
Garbage == {<<0, 0, 0>>, <<700, -700, 700>>}

\* The variables of the other specifications, at rest.
IdleLife == stream = <<>> /\ saved = <<>> /\ restoredFrom = <<>> /\ subShapes = <<>>
IdleScale == leafAccepts = {} /\ scaleQuery = [asked |-> FALSE]
IdleStats == visited = {} /\ total = [mSizeBytes |-> 0, mNumTriangles |-> 0] /\ statsCalls = <<>>
IdleBridge == call = [kind |-> "none"] /\ bridged = [kind |-> "none"]

\* ------------------------------------------------------- SpecCreate: Create
\* Settings objects as a user may fill them in: a direct inner shape (alone,
\* or beside settings that would fail), inner settings (a leaf's, or the next
\* lower decorator's), or neither.
PositionOf(s) == IF s % 2 = 1 THEN <<100, 0, -200>> ELSE <<0, 0, 0>>
RotationOf(s) == IF s % 3 = 1 THEN <<0, 0, 6, 8>> ELSE IF s % 3 = 2 THEN <<0, 0, 1, 10>> ELSE <<5, 5, 5, 5>>

InnerSettingsChoices(s, ptr) ==
  IF ptr # NullShape
  THEN {NullSettings, LeafSettingsBad}
  ELSE {NullSettings} \cup LeafSettings \cup (IF s > 1 THEN {s - 1} ELSE {})

InitCreate ==
  /\ \E ptr \in [DecoratorSettings -> {NullShape, LeafShapeA}] :
     \E inner \in [DecoratorSettings -> {NullSettings} \cup LeafSettings \cup DecoratorSettings] :
       /\ \A s \in DecoratorSettings : inner[s] \in InnerSettingsChoices(s, ptr[s])
       /\ settings = [s \in DecoratorSettings |->
                        [mInnerShapePtr |-> ptr[s], mInnerShape |-> inner[s],
                         mPosition |-> PositionOf(s), mRotation |-> RotationOf(s),
                         mUserData |-> s, mCachedResult |-> EmptyResult]]
  /\ shapes = <<>>
  /\ runs = [s \in DecoratorSettings |-> 0]
  /\ calls = [s \in DecoratorSettings |-> 0]
  /\ firstResult = [s \in DecoratorSettings |-> EmptyResult]
  /\ lastResult = [s \in DecoratorSettings |-> EmptyResult]
  /\ ctorLog = {}
  /\ IdleLife /\ IdleScale /\ IdleStats /\ IdleBridge

\* The program state after a call, as the next state.
Becomes(st) ==
  /\ settings' = st.settings
  /\ shapes' = st.shapes
  /\ runs' = st.runs
  /\ calls' = st.calls
  /\ firstResult' = st.firstResult
  /\ lastResult' = st.lastResult
  /\ ctorLog' = st.ctorLog
  /\ UNCHANGED <<lifeVars, scaleVars, statsVars, bridgeVars>>

\* What a read through a null inner shape may yield in a call that ends in
\* state st: open when such a read happened.
ReadThroughNull(st) ==
  IF \A e \in st.ctorLog : ~e.deref THEN {<<0, 0, 0>>} ELSE Garbage

\* A caller invokes Create() on a settings object.
Create(s) ==
  \E ub \in ReadThroughNull(RotatedTranslatedShapeSettingsCreate(ProgramState, s, <<0, 0, 0>>).st) :
    Becomes(RotatedTranslatedShapeSettingsCreate(ProgramState, s, ub).st)

NextCreate == \E s \in DecoratorSettings : Create(s)

SpecCreate == InitCreate /\ [][NextCreate]_vars

\* ----------------------------------------------------- claims on SpecCreate
\* The constructor runs recorded for settings object s.
RunsOf(s) == {e \in ctorLog : e.settings = s}

\* C1: a Create() on settings with neither mInnerShapePtr nor mInnerShape
\* returns an error and no shape; the constructor run computed nothing, did not
\* set the result to the new object, and no object of it stays on the heap.
C1_MissingInnerFails ==
  \A s \in DecoratorSettings :
    (/\ settings[s].mInnerShapePtr = NullShape
     /\ settings[s].mInnerShape = NullSettings
     /\ calls[s] > 0) =>
      /\ HasError(lastResult[s])
      /\ ~IsValid(lastResult[s])
      /\ ResultGet(lastResult[s]) = NullShape
      /\ lastResult[s].error = "Inner shape is null!"
      /\ \A e \in RunsOf(s) : ~e.derived /\ e.out # ResultSet(e.this)
      /\ \A sh \in DOMAIN shapes : sh[1] # s

C1_Witness ==
  \E s \in DecoratorSettings :
    /\ settings[s].mInnerShapePtr = NullShape
    /\ settings[s].mInnerShape = NullSettings
    /\ calls[s] > 0
    /\ RunsOf(s) # {}

\* What building settings object s must yield when it fails: the error of the
\* component that fails first on the way down, an empty result otherwise.
RECURSIVE RootCause(_)
RootCause(s) ==
  IF s \in LeafSettings THEN (IF HasError(LeafCreate(s)) THEN LeafCreate(s) ELSE EmptyResult)
  ELSE IF settings[s].mInnerShapePtr # NullShape THEN EmptyResult
  ELSE IF settings[s].mInnerShape = NullSettings THEN ResultSetError("Inner shape is null!")
  ELSE RootCause(settings[s].mInnerShape)

\* Nesting depth of the settings chain below s that is built from settings.
RECURSIVE Depth(_)
Depth(s) ==
  IF s \in LeafSettings \/ s = NullSettings THEN 0
  ELSE IF settings[s].mInnerShapePtr # NullShape THEN 1
  ELSE 1 + Depth(settings[s].mInnerShape)

\* C2: when no direct inner shape is given and building the inner shape from
\* its settings fails, the constructor's result is the child's failed result,
\* unchanged, at every level: Create() on the outermost settings returns the
\* error of the component that failed.
C2_ChildFailurePropagatedVerbatim ==
  /\ \A e \in ctorLog :
       (e.built /\ ~IsValid(e.child)) => (e.base = e.child /\ e.out = e.child)
  /\ \A s \in DecoratorSettings :
       (/\ calls[s] > 0
        /\ settings[s].mInnerShapePtr = NullShape
        /\ settings[s].mInnerShape # NullSettings
        /\ HasError(RootCause(settings[s].mInnerShape)))
       => lastResult[s] = RootCause(settings[s].mInnerShape)

C2_Witness ==
  \E s \in DecoratorSettings :
    /\ calls[s] > 0
    /\ Depth(s) >= 3
    /\ RootCause(s) = LeafCreate(LeafSettingsBad)
    /\ lastResult[s] = LeafCreate(LeafSettingsBad)
    /\ \E e \in RunsOf(s) : e.built /\ HasError(e.child)

\* C3: over any sequence of Create() calls on one settings object the
\* constructor runs at most once, and every call returns the result of the
\* first, be it a shape or an error.
C3_CreateMemoizes ==
  \A s \in DecoratorSettings :
    /\ runs[s] <= 1
    /\ calls[s] > 0 =>
         /\ runs[s] = 1
         /\ ~IsEmpty(lastResult[s])
         /\ lastResult[s] = firstResult[s]
         /\ lastResult[s] = settings[s].mCachedResult

C3_Witness ==
  \E s, u \in DecoratorSettings :
    /\ calls[s] >= 2 /\ IsValid(lastResult[s])
    /\ calls[u] >= 2 /\ HasError(lastResult[u])

\* C10: a constructor run in which DecoratedShape assigned no inner shape
\* (none given, or the child's Create() was not valid) returned before
\* reading the inner shape's centre of mass, stored no rotation and flag, and
\* did not set the result to the new object.
C10_BaseErrorAbortsDerived ==
  \A e \in ctorLog :
    e.inner = NullShape =>
      /\ ~e.derived
      /\ ~e.deref
      /\ e.out # ResultSet(e.this)
      /\ e.this \notin DOMAIN shapes

C10_Witness ==
  /\ \E e \in ctorLog : e.inner = NullShape /\ e.built /\ ~IsValid(e.child)
  /\ \E e \in ctorLog : e.inner = NullShape /\ ~e.built
  /\ \E e \in ctorLog : e.inner # NullShape /\ e.derived

\* ------------------------------------------------ Spec: a shape's lifetime
\* StreamOut::Write / StreamIn::Read: the stream is a flat run of numbers, a
\* value is written as its components and read back by count.
StreamWrite(str, components) == str \o components
StreamRead(str, n) == [value |-> SubSeq(str, 1, n), rest |-> SubSeq(str, n + 1, Len(str))]

\* Shape::SaveBinaryState / RestoreBinaryState, the base state: mUserData.
ShapeSaveBinaryState(obj, str) == StreamWrite(str, <<obj.mUserData>>)
ShapeRestoreBinaryState(obj, str) ==
  LET r == StreamRead(str, 1)
  IN  [obj |-> [obj EXCEPT !.mUserData = r.value[1]], rest |-> r.rest]

\* Mutant: rotation is written before the centre of mass.
SaveBinaryStateRotationFirst(obj, str) ==
  StreamWrite(StreamWrite(ShapeSaveBinaryState(obj, str), obj.mRotation), obj.mCenterOfMass)

\* RotatedTranslatedShape::SaveBinaryState.
SaveBinaryState(obj, str) ==
  LET base == ShapeSaveBinaryState(obj, str)
      com == StreamWrite(base, obj.mCenterOfMass)
  IN  StreamWrite(com, obj.mRotation)

\* Mutant: the flag is left as it was.
RestoredIsRotationIdentityStale(old, rotation) == old

\* RotatedTranslatedShape.cpp:208, the flag after a restore.
RestoredIsRotationIdentity(old, rotation) == QuatIsClose(rotation, QuatIdentity)

\* RotatedTranslatedShape::RestoreBinaryState.
RestoreBinaryState(obj, str) ==
  LET base == ShapeRestoreBinaryState(obj, str)
      com == StreamRead(base.rest, 3)
      rot == StreamRead(com.rest, 4)
  IN  [obj |-> [base.obj EXCEPT
                  !.mCenterOfMass = com.value,
                  !.mRotation = rot.value,
                  !.mIsRotationIdentity =
                     RestoredIsRotationIdentity(obj.mIsRotationIdentity, rot.value)],
       rest |-> rot.rest]

\* DecoratedShape::SaveSubShapeState: the list cleared, the inner shape pushed.
DecoratedSaveSubShapeState(obj) == <<obj.mInnerShape>>

\* DecoratedShape::RestoreSubShapeState, past its JPH_ASSERT.
DecoratedRestoreSubShapeState(obj, inSubShapes) ==
  [obj EXCEPT !.mInnerShape = inSubShapes[1]]

\* Number of shape states the stream may hold at once.
MaxBlobs == 1

\* The members a default-constructed shape leaves uninitialised.
Uninitialised ==
  {[mCenterOfMass |-> <<700, -700, 700>>, mRotation |-> <<0, 0, 0, 0>>, mIsRotationIdentity |-> TRUE],
   [mCenterOfMass |-> <<0, 0, 0>>, mRotation |-> <<0, 0, 0, 10>>, mIsRotationIdentity |-> FALSE]}

\* A shape state written by another program run: user data, centre of mass,
\* rotation.
ForeignBlob == <<7, 300, 0, -100, 0, 0, 1, 10>>
ForeignState ==
  [from |-> NullShape, mCenterOfMass |-> <<300, 0, -100>>, mRotation |-> <<0, 0, 1, 10>>]

\* A settings object with a direct inner shape, the others left empty.
LifeSettings(rot) ==
  [s \in DecoratorSettings |->
     [mInnerShapePtr |-> IF s = 1 THEN LeafShapeA ELSE NullShape,
      mInnerShape |-> NullSettings,
      mPosition |-> PositionOf(s),
      mRotation |-> IF s = 1 THEN rot ELSE RotationOf(s),
      mUserData |-> s, mCachedResult |-> EmptyResult]]

\* The program before any Create(), with the given settings objects.
Fresh(sett) ==
  [settings |-> sett, shapes |-> <<>>,
   runs |-> [s \in DecoratorSettings |-> 0],
   calls |-> [s \in DecoratorSettings |-> 0],
   firstResult |-> [s \in DecoratorSettings |-> EmptyResult],
   lastResult |-> [s \in DecoratorSettings |-> EmptyResult],
   ctorLog |-> {}]

\* The program state st, with further objects on the heap, as initial state.
Starts(st, objects) ==
  /\ settings = st.settings
  /\ shapes = st.shapes @@ objects
  /\ runs = st.runs
  /\ calls = st.calls
  /\ firstResult = st.firstResult
  /\ lastResult = st.lastResult
  /\ ctorLog = st.ctorLog

\* One shape built by Create() from settings, and one default-constructed
\* shape to restore into; the stream empty or holding a foreign shape state.
Init ==
  \E rot \in Rotations, u \in Uninitialised, foreign \in BOOLEAN :
    /\ Starts(RotatedTranslatedShapeSettingsCreate(Fresh(LifeSettings(rot)), 1, <<0, 0, 0>>).st,
              FreshShape :> (u @@ [mUserData |-> 0, mInnerShape |-> NullShape]))
    /\ stream = IF foreign THEN ForeignBlob ELSE <<>>
    /\ saved = IF foreign THEN <<ForeignState>> ELSE <<>>
    /\ restoredFrom = <<>>
    /\ subShapes = <<>>
    /\ IdleScale /\ IdleStats /\ IdleBridge

\* A shape built by a constructor, as opposed to default-constructed.
Constructed(d) == d[1] >= 1
\* A shape whose members are all initialised.
Initialised(d) == Constructed(d) \/ d \in DOMAIN restoredFrom

SaveSubShapeState(d) ==
  /\ subShapes' = DecoratedSaveSubShapeState(shapes[d])
  /\ UNCHANGED <<createVars, stream, saved, restoredFrom, scaleVars, statsVars, bridgeVars>>

\* The lists a caller may pass: what SaveSubShapeState filled, or a list of
\* its own making, whose references may be null.
ShapeLists ==
  LET refs == {NullShape} \cup LeafShapes
  IN  {subShapes} \cup {<<>>} \cup {<<a>> : a \in refs} \cup {<<a, NullShape>> : a \in refs}

RestoreSubShapeState(d) ==
  \E inSubShapes \in ShapeLists :
    /\ Len(inSubShapes) = 1
    /\ shapes' = [shapes EXCEPT ![d] = DecoratedRestoreSubShapeState(@, inSubShapes)]
    /\ UNCHANGED <<settings, runs, calls, firstResult, lastResult, ctorLog, lifeVars, scaleVars, statsVars, bridgeVars>>

SaveBinary(d) ==
  /\ Initialised(d)
  /\ Len(saved) < MaxBlobs
  /\ stream' = SaveBinaryState(shapes[d], stream)
  /\ saved' = Append(saved, [from |-> d, mCenterOfMass |-> shapes[d].mCenterOfMass,
                             mRotation |-> shapes[d].mRotation])
  /\ UNCHANGED <<createVars, restoredFrom, subShapes, scaleVars, statsVars, bridgeVars>>

RestoreBinary(d) ==
  /\ Len(saved) > 0
  /\ shapes' = [shapes EXCEPT ![d] = RestoreBinaryState(@, stream).obj]
  /\ stream' = RestoreBinaryState(shapes[d], stream).rest
  /\ saved' = Tail(saved)
  /\ restoredFrom' = (d :> Head(saved)) @@ restoredFrom
  /\ UNCHANGED <<settings, runs, calls, firstResult, lastResult, ctorLog, subShapes, scaleVars, statsVars, bridgeVars>>

Next ==
  \/ \E d \in DOMAIN shapes : SaveSubShapeState(d)
  \/ \E d \in DOMAIN shapes : RestoreSubShapeState(d)
  \/ \E d \in DOMAIN shapes : SaveBinary(d)
  \/ \E d \in DOMAIN shapes : RestoreBinary(d)

Spec == Init /\ [][Next]_vars

\* ----------------------------------------------------------- claims on Spec
\* C5: in every shape that was constructed or restored, mIsRotationIdentity
\* equals mRotation.IsClose(identity).
C5_FlagMatchesRotation ==
  \A d \in DOMAIN shapes :
    Initialised(d) =>
      shapes[d].mIsRotationIdentity = QuatIsClose(shapes[d].mRotation, QuatIdentity)

\* A restore has overwritten a shape whose flag was the opposite.
C5_Witness ==
  \E d \in DOMAIN restoredFrom :
    /\ Constructed(d)
    /\ shapes[d].mIsRotationIdentity
    /\ shapes[d].mRotation # QuatIdentity
    /\ ~QuatIsClose(settings[d[1]].mRotation, QuatIdentity)

\* C6: the inner shape of a constructed shape is never null.
C6_InnerShapeNeverNull ==
  \A d \in DOMAIN shapes : Constructed(d) => shapes[d].mInnerShape # NullShape

\* C7: a shape restored from the stream has the centre of mass and rotation
\* that were saved, and the flag that fits the rotation.
C7_SaveRestoreRoundTrips ==
  \A d \in DOMAIN restoredFrom :
    /\ shapes[d].mCenterOfMass = restoredFrom[d].mCenterOfMass
    /\ shapes[d].mRotation = restoredFrom[d].mRotation
    /\ shapes[d].mIsRotationIdentity = QuatIsClose(restoredFrom[d].mRotation, QuatIdentity)

\* The default-constructed shape, given the built shape's inner shape and
\* restored from the built shape's saved state.
C7_Witness ==
  \E d \in DOMAIN restoredFrom, x \in DOMAIN shapes :
    /\ ~Constructed(d) /\ Constructed(x)
    /\ restoredFrom[d].from = x
    /\ x \notin DOMAIN restoredFrom
    /\ shapes[d].mInnerShape = shapes[x].mInnerShape
    /\ shapes[d].mInnerShape # NullShape
    /\ shapes[d].mCenterOfMass = shapes[x].mCenterOfMass
    /\ shapes[d].mCenterOfMass # settings[x[1]].mPosition
    /\ shapes[d].mRotation = shapes[x].mRotation
    /\ ~shapes[d].mIsRotationIdentity

\* ------------------------------------------------- SpecScale: IsValidScale
\* ScaleHelpers::IsZeroScale: some component is (about) zero.
IsZeroScale(scale) == \E i \in 1..3 : scale[i] = 0

\* ScaleHelpers::IsUniformScale: the components are (about) equal.
IsUniformScale(scale) == scale[1] = scale[2] /\ scale[2] = scale[3]

\* Entry (i, j) of r^T * sScale(scale) * r for a rotation matrix r, in units
\* of 1/10000.
RotatedScaleEntry(r, scale, i, j) ==
  r[1][i] * scale[1] * r[1][j] + r[2][i] * scale[2] * r[2][j] + r[3][i] * scale[3] * r[3][j]

\* ScaleHelpers::CanScaleBeRotated: the rotated scale has no shear.
CanScaleBeRotated(rotation, scale) ==
  LET r == sRotation(rotation)
  IN  /\ RotatedScaleEntry(r, scale, 1, 2) = 0 /\ RotatedScaleEntry(r, scale, 2, 1) = 0
      /\ RotatedScaleEntry(r, scale, 1, 3) = 0 /\ RotatedScaleEntry(r, scale, 3, 1) = 0
      /\ RotatedScaleEntry(r, scale, 2, 3) = 0 /\ RotatedScaleEntry(r, scale, 3, 2) = 0

\* ScaleHelpers::RotateScale: the diagonal of the rotated scale.
RotateScale(rotation, scale) ==
  LET r == sRotation(rotation)
  IN  <<RotatedScaleEntry(r, scale, 1, 1) \div 10000,
        RotatedScaleEntry(r, scale, 2, 2) \div 10000,
        RotatedScaleEntry(r, scale, 3, 3) \div 10000>>

\* DecoratedShape::IsValidScale, which is Shape::IsValidScale.
BaseIsValidScale(scale) == ~IsZeroScale(scale)

\* IsValidScale of the external leaf shape.
LeafIsValidScale(accepts, scale) == BaseIsValidScale(scale) /\ scale \in accepts

\* Mutant: an unrotatable scale is handed on to the inner shape all the same.
IsValidScaleNoRotatableCheck(obj, inScale, innerPlain, innerRotated) ==
  IF ~BaseIsValidScale(inScale) THEN FALSE
  ELSE IF obj.mIsRotationIdentity \/ IsUniformScale(inScale) THEN innerPlain
  ELSE innerRotated

\* RotatedTranslatedShape::IsValidScale.  innerPlain and innerRotated are the
\* inner shape's answers for inScale and for RotateScale(mRotation, inScale).
IsValidScale(obj, inScale, innerPlain, innerRotated) ==
  IF ~BaseIsValidScale(inScale) THEN FALSE
  ELSE IF obj.mIsRotationIdentity \/ IsUniformScale(inScale) THEN innerPlain
  ELSE IF ~CanScaleBeRotated(obj.mRotation, inScale) THEN FALSE
  ELSE innerRotated

\* Shape::IsValidScale, the virtual call, on shape sh of heap h.
RECURSIVE ShapeIsValidScale(_, _, _, _)
ShapeIsValidScale(h, accepts, sh, scale) ==
  IF sh \in LeafShapes THEN LeafIsValidScale(accepts, scale)
  ELSE IsValidScale(h[sh], scale,
                    ShapeIsValidScale(h, accepts, h[sh].mInnerShape, scale),
                    ShapeIsValidScale(h, accepts, h[sh].mInnerShape,
                                      RotateScale(h[sh].mRotation, scale)))

Scales == {<<1, 1, 1>>, <<2, 2, 2>>, <<1, 1, 2>>, <<1, 2, 1>>, <<2, 1, 1>>, <<0, 1, 1>>}

\* A chain of settings objects: the first with a direct leaf shape, each other
\* one built from the one below; the first and the last rotation are given.
ChainSettings(rotFirst, rotLast) ==
  [s \in DecoratorSettings |->
     [mInnerShapePtr |-> IF s = 1 THEN LeafShapeA ELSE NullShape,
      mInnerShape |-> IF s = 1 THEN NullSettings ELSE s - 1,
      mPosition |-> PositionOf(s),
      mRotation |-> IF s = 1 THEN rotFirst
                    ELSE IF s = NumSettings THEN rotLast ELSE RotationOf(s),
      mUserData |-> s, mCachedResult |-> EmptyResult]]

\* The state after Create() on the last settings object of the chain.
ChainBuilt(rotFirst, rotLast) ==
  RotatedTranslatedShapeSettingsCreate(Fresh(ChainSettings(rotFirst, rotLast)),
                                       NumSettings, <<0, 0, 0>>).st

InitScale ==
  /\ \E rot \in Rotations : Starts(ChainBuilt(rot, RotationOf(NumSettings)), <<>>)
  /\ leafAccepts \in SUBSET Scales
  /\ scaleQuery = [asked |-> FALSE]
  /\ IdleLife /\ IdleStats /\ IdleBridge

\* A caller asks a decorator whether a scale is valid.
AskIsValidScale(d, scale) ==
  /\ scaleQuery' = [asked |-> TRUE, shape |-> d, scale |-> scale,
                    result |-> ShapeIsValidScale(shapes, leafAccepts, d, scale)]
  /\ UNCHANGED <<createVars, lifeVars, leafAccepts, statsVars, bridgeVars>>

NextScale == \E d \in DOMAIN shapes, scale \in Scales : AskIsValidScale(d, scale)

SpecScale == InitScale /\ [][NextScale]_vars

\* ------------------------------------------------------ claims on SpecScale
\* The inner shape of the shape last asked accepts scale s.
InnerAccepts(s) ==
  ShapeIsValidScale(shapes, leafAccepts, shapes[scaleQuery.shape].mInnerShape, s)

\* C4 as stated: IsValidScale(scale) is base validity and (identity rotation,
\* or uniform scale, or (the scale can be rotated and the inner shape accepts
\* the rotated scale)).
C4_AsStated ==
  scaleQuery.asked =>
    LET rot == shapes[scaleQuery.shape].mRotation
        sc == scaleQuery.scale
    IN  scaleQuery.result =
          (/\ BaseIsValidScale(sc)
           /\ \/ QuatIsClose(rot, QuatIdentity)
              \/ IsUniformScale(sc)
              \/ CanScaleBeRotated(rot, sc) /\ InnerAccepts(RotateScale(rot, sc)))

\* C4, amended: IsValidScale(scale) is base validity and, when the rotation is
\* identity or the scale uniform, the inner shape accepting the scale as it
\* is, otherwise the scale being rotatable and the inner shape accepting the
\* rotated scale.
C4_IsValidScale ==
  scaleQuery.asked =>
    LET rot == shapes[scaleQuery.shape].mRotation
        sc == scaleQuery.scale
    IN  scaleQuery.result =
          (/\ BaseIsValidScale(sc)
           /\ IF QuatIsClose(rot, QuatIdentity) \/ IsUniformScale(sc)
              THEN InnerAccepts(sc)
              ELSE CanScaleBeRotated(rot, sc) /\ InnerAccepts(RotateScale(rot, sc)))

\* A rotated shape asked about a non-uniform scale that can be rotated into
\* one the inner shape accepts, though it rejects the scale as it is.
C4_Witness ==
  /\ scaleQuery.asked
  /\ scaleQuery.result
  /\ ~QuatIsClose(shapes[scaleQuery.shape].mRotation, QuatIdentity)
  /\ ~IsUniformScale(scaleQuery.scale)
  /\ RotateScale(shapes[scaleQuery.shape].mRotation, scaleQuery.scale) # scaleQuery.scale
  /\ ~InnerAccepts(scaleQuery.scale)

\* --------------------------------------------- SpecStats: GetStatsRecursive
\* Number of GetStatsRecursive calls that share one visited set.
MaxStatsCalls == 2

NoStats == [mSizeBytes |-> 0, mNumTriangles |-> 0]
StatsAdd(a, b) ==
  [mSizeBytes |-> a.mSizeBytes + b.mSizeBytes,
   mNumTriangles |-> a.mNumTriangles + b.mNumTriangles]

\* Shape::GetStats: the shape's own size and triangle count.
GetStats(sh) ==
  IF sh = LeafShapeA THEN [mSizeBytes |-> 64, mNumTriangles |-> 0]
  ELSE IF sh = LeafShapeB THEN [mSizeBytes |-> 1000, mNumTriangles |-> 12]
  ELSE [mSizeBytes |-> 96, mNumTriangles |-> 0]

\* Shape::GetStatsRecursive: the shape's own stats on its first visit, none
\* on a later one.
ShapeGetStatsRecursive(sh, ioVisitedShapes) ==
  [stats |-> IF sh \in ioVisitedShapes THEN NoStats ELSE GetStats(sh),
   visited |-> ioVisitedShapes \cup {sh}]

\* DecoratedShape.cpp:80-83: the child's stats added to the shape's own.
AddChildStats(own, child) ==
  [stats |-> StatsAdd(own.stats, child.stats), visited |-> child.visited]

RECURSIVE GetStatsRecursive(_, _, _)

\* Mutant: the child is handed a copy of the visited set.
DecoratedGetStatsRecursiveCopiesSet(h, sh, ioVisitedShapes) ==
  [stats |-> StatsAdd(ShapeGetStatsRecursive(sh, ioVisitedShapes).stats,
                      GetStatsRecursive(h, h[sh].mInnerShape,
                                        ShapeGetStatsRecursive(sh, ioVisitedShapes).visited).stats),
   visited |-> ShapeGetStatsRecursive(sh, ioVisitedShapes).visited]

\* DecoratedShape::GetStatsRecursive: own stats, then the child's, through
\* the one visited set.
DecoratedGetStatsRecursive(h, sh, ioVisitedShapes) ==
  AddChildStats(ShapeGetStatsRecursive(sh, ioVisitedShapes),
                GetStatsRecursive(h, h[sh].mInnerShape,
                                  ShapeGetStatsRecursive(sh, ioVisitedShapes).visited))

\* Shape::GetStatsRecursive, the virtual call.
GetStatsRecursive(h, sh, ioVisitedShapes) ==
  IF sh \in LeafShapes THEN ShapeGetStatsRecursive(sh, ioVisitedShapes)
  ELSE DecoratedGetStatsRecursive(h, sh, ioVisitedShapes)

\* Settings objects that all build: a direct leaf shape, the leaf settings, or
\* any lower settings object, so that decorators come to share inner shapes.
SharingChoices(s) ==
  {[ptr |-> LeafShapeA, inner |-> NullSettings],
   [ptr |-> LeafShapeB, inner |-> NullSettings],
   [ptr |-> NullShape, inner |-> LeafSettingsOk]}
    \cup {[ptr |-> NullShape, inner |-> u] : u \in 1..(s - 1)}

SharingSettings(pick) ==
  [s \in DecoratorSettings |->
     [mInnerShapePtr |-> pick[s].ptr, mInnerShape |-> pick[s].inner,
      mPosition |-> PositionOf(s), mRotation |-> RotationOf(s),
      mUserData |-> s, mCachedResult |-> EmptyResult]]

\* The state after Create() on the settings objects 1..n, in that order.
RECURSIVE CreateAll(_, _)
CreateAll(st, n) ==
  IF n = 0 THEN st
  ELSE RotatedTranslatedShapeSettingsCreate(CreateAll(st, n - 1), n, <<0, 0, 0>>).st

InitStats ==
  /\ \E pick \in [DecoratorSettings -> UNION {SharingChoices(s) : s \in DecoratorSettings}] :
       /\ \A s \in DecoratorSettings : pick[s] \in SharingChoices(s)
       /\ Starts(CreateAll(Fresh(SharingSettings(pick)), NumSettings), <<>>)
  /\ visited = {}
  /\ total = NoStats
  /\ statsCalls = <<>>
  /\ IdleLife /\ IdleScale /\ IdleBridge

\* A caller adds a shape's recursive stats to its total, passing the visited
\* set it passed to the calls before.
AddStats(d) ==
  /\ Len(statsCalls) < MaxStatsCalls
  /\ visited' = GetStatsRecursive(shapes, d, visited).visited
  /\ total' = StatsAdd(total, GetStatsRecursive(shapes, d, visited).stats)
  /\ statsCalls' = Append(statsCalls, d)
  /\ UNCHANGED <<createVars, lifeVars, scaleVars, bridgeVars>>

NextStats == \E d \in DOMAIN shapes : AddStats(d)

SpecStats == InitStats /\ [][NextStats]_vars

\* ------------------------------------------------------ claims on SpecStats
\* The shapes reachable from sh through inner-shape references.
RECURSIVE Reach(_)
Reach(sh) == IF sh \in LeafShapes THEN {sh} ELSE {sh} \cup Reach(shapes[sh].mInnerShape)

RECURSIVE SumStats(_)
SumStats(S) ==
  IF S = {} THEN NoStats
  ELSE LET sh == CHOOSE x \in S : TRUE
       IN  StatsAdd(GetStats(sh), SumStats(S \ {sh}))

\* C8: with one visited set shared by the calls, the total counts every shape
\* reachable from the shapes asked exactly once: an inner shape two decorators
\* share once, each decorator's own overhead once, in whatever order.
C8_SharedInnerCountedOnce ==
  /\ total = SumStats(UNION {Reach(statsCalls[i]) : i \in 1..Len(statsCalls)})
  /\ visited = UNION {Reach(statsCalls[i]) : i \in 1..Len(statsCalls)}

\* Two decorators sharing one inner shape, the later built asked first.
C8_Witness ==
  /\ Len(statsCalls) >= 2
  /\ statsCalls[1] # statsCalls[2]
  /\ statsCalls[1][1] > statsCalls[2][1]
  /\ shapes[statsCalls[1]].mInnerShape = shapes[statsCalls[2]].mInnerShape
  /\ total.mNumTriangles = 12
  /\ total.mSizeBytes = 96 + 96 + 1000

\* --------------------------------------- SpecBridge: the dispatch bridges
\* Mat44 as a rotation part (entries in hundredths) and a translation.
Mat44sRotation(q) == [rot |-> sRotation(q), trans |-> <<0, 0, 0>>]

\* Mat44 * Mat44.
Mat44Mul(a, b) ==
  [rot |-> [i \in 1..3 |-> [j \in 1..3 |->
              (a.rot[i][1] * b.rot[1][j] + a.rot[i][2] * b.rot[2][j]
                 + a.rot[i][3] * b.rot[3][j]) \div 100]],
   trans |-> [i \in 1..3 |->
              (a.rot[i][1] * b.trans[1] + a.rot[i][2] * b.trans[2]
                 + a.rot[i][3] * b.trans[3]) \div 100 + a.trans[i]]]

\* RotatedTranslatedShape::TransformScale: the scale as the inner shape is to
\* see it.
TransformScale(obj, inScale) ==
  IF obj.mIsRotationIdentity \/ IsUniformScale(inScale) THEN inScale
  ELSE RotateScale(obj.mRotation, inScale)

\* CollisionDispatch::sCollideShapeVsShape, as the invocation it is given.
sCollideShapeVsShape(inShape1, inShape2, inScale1, inScale2, inCenterOfMassTransform1, inCenterOfMassTransform2, inSubShapeIDCreator1, inSubShapeIDCreator2, inCollideShapeSettings, ioCollector) ==
  [kind |-> "collide", shape1 |-> inShape1, shape2 |-> inShape2,
   scale1 |-> inScale1, scale2 |-> inScale2,
   transform1 |-> inCenterOfMassTransform1, transform2 |-> inCenterOfMassTransform2,
   idCreator1 |-> inSubShapeIDCreator1, idCreator2 |-> inSubShapeIDCreator2,
   settings |-> inCollideShapeSettings, collector |-> ioCollector]

\* ShapeCast(shape, scale, centre of mass start, direction).
ShapeCast(inShape, inScale, inCenterOfMassStart, inDirection) ==
  [mShape |-> inShape, mScale |-> inScale,
   mCenterOfMassStart |-> inCenterOfMassStart, mDirection |-> inDirection]

\* CollisionDispatch::sCastShapeVsShape, as the invocation it is given.
sCastShapeVsShape(inShapeCast, inShapeCastSettings, inShape, inScale, inShapeFilter, inCenterOfMassTransform2, inSubShapeIDCreator1, inSubShapeIDCreator2, ioCollector) ==
  [kind |-> "cast", shapeCast |-> inShapeCast, castSettings |-> inShapeCastSettings,
   shape |-> inShape, scale |-> inScale, filter |-> inShapeFilter,
   transform2 |-> inCenterOfMassTransform2,
   idCreator1 |-> inSubShapeIDCreator1, idCreator2 |-> inSubShapeIDCreator2,
   collector |-> ioCollector]

\* RotatedTranslatedShape::sCollideRotatedTranslatedVsShape, on the arguments
\* of invocation c: the dispatcher invocations it makes.
sCollideRotatedTranslatedVsShape(h, c) ==
  << sCollideShapeVsShape(h[c.shape1].mInnerShape, c.shape2,
                          TransformScale(h[c.shape1], c.scale1), c.scale2,
                          Mat44Mul(c.transform1, Mat44sRotation(h[c.shape1].mRotation)),
                          c.transform2, c.idCreator1, c.idCreator2,
                          c.settings, c.collector) >>

\* Mutant: the first operand's scale is the one transformed.
sCollideShapeVsRotatedTranslatedWrongScale(h, c) ==
  << sCollideShapeVsShape(c.shape1, h[c.shape2].mInnerShape,
                          TransformScale(h[c.shape2], c.scale1), c.scale2,
                          c.transform1,
                          Mat44Mul(c.transform2, Mat44sRotation(h[c.shape2].mRotation)),
                          c.idCreator1, c.idCreator2, c.settings, c.collector) >>

\* RotatedTranslatedShape::sCollideShapeVsRotatedTranslated.
sCollideShapeVsRotatedTranslated(h, c) ==
  << sCollideShapeVsShape(c.shape1, h[c.shape2].mInnerShape,
                          c.scale1, TransformScale(h[c.shape2], c.scale2),
                          c.transform1,
                          Mat44Mul(c.transform2, Mat44sRotation(h[c.shape2].mRotation)),
                          c.idCreator1, c.idCreator2, c.settings, c.collector) >>

\* RotatedTranslatedShape::sCastRotatedTranslatedShapeVsShape.
sCastRotatedTranslatedShapeVsShape(h, c) ==
  << sCastShapeVsShape(
       ShapeCast(h[c.shapeCast.mShape].mInnerShape,
                 TransformScale(h[c.shapeCast.mShape], c.shapeCast.mScale),
                 Mat44Mul(c.shapeCast.mCenterOfMassStart,
                          Mat44sRotation(h[c.shapeCast.mShape].mRotation)),
                 c.shapeCast.mDirection),
       c.castSettings, c.shape, c.scale, c.filter, c.transform2,
       c.idCreator1, c.idCreator2, c.collector) >>

\* What a caller may pass for the two operands.
Scales1 == {<<1, 1, 2>>, <<2, 2, 2>>}
Scales2 == {<<2, 1, 1>>, <<1, 2, 1>>}
Transform1 == [rot |-> <<<<100, 0, 0>>, <<0, 100, 0>>, <<0, 0, 100>>>>, trans |-> <<100, 0, 0>>]
Transform2 == [rot |-> <<<<0, -100, 0>>, <<100, 0, 0>>, <<0, 0, 100>>>>, trans |-> <<0, 200, -300>>]

InitBridge ==
  /\ \E rot \in Rotations : Starts(ChainBuilt(rot, RotationOf(NumSettings)), <<>>)
  /\ call = [kind |-> "none"]
  /\ bridged = [kind |-> "none"]
  /\ IdleLife /\ IdleScale /\ IdleStats

\* A caller starts a collision query on two shapes.
CollideShapeVsShape ==
  \E s1 \in DOMAIN shapes \cup LeafShapes, s2 \in DOMAIN shapes \cup LeafShapes,
     sc1 \in Scales1, sc2 \in Scales2 :
    /\ call' = sCollideShapeVsShape(s1, s2, sc1, sc2, Transform1, Transform2,
                                    "creator1", "creator2", "settings", "collector")
    /\ bridged' = [kind |-> "none"]
    /\ UNCHANGED <<createVars, lifeVars, scaleVars, statsVars>>

\* A caller starts a shape cast of one shape against another.
CastShapeVsShape ==
  \E s1 \in DOMAIN shapes \cup LeafShapes, s2 \in DOMAIN shapes \cup LeafShapes,
     sc1 \in Scales1, sc2 \in Scales2 :
    /\ call' = sCastShapeVsShape(ShapeCast(s1, sc1, Transform1, <<0, 0, 500>>),
                                 "castSettings", s2, sc2, "filter", Transform2,
                                 "creator1", "creator2", "collector")
    /\ bridged' = [kind |-> "none"]
    /\ UNCHANGED <<createVars, lifeVars, scaleVars, statsVars>>

\* The dispatcher finds the first operand to be a RotatedTranslatedShape.
CollideRotatedTranslatedVsShape ==
  /\ call.kind = "collide"
  /\ call.shape1 \in DOMAIN shapes
  /\ bridged' = [kind |-> "RotatedTranslatedVsShape", given |-> call,
                 invoked |-> sCollideRotatedTranslatedVsShape(shapes, call)]
  /\ call' = sCollideRotatedTranslatedVsShape(shapes, call)[1]
  /\ UNCHANGED <<createVars, lifeVars, scaleVars, statsVars>>

\* The dispatcher finds the second operand to be a RotatedTranslatedShape.
CollideShapeVsRotatedTranslated ==
  /\ call.kind = "collide"
  /\ call.shape2 \in DOMAIN shapes
  /\ bridged' = [kind |-> "ShapeVsRotatedTranslated", given |-> call,
                 invoked |-> sCollideShapeVsRotatedTranslated(shapes, call)]
  /\ call' = sCollideShapeVsRotatedTranslated(shapes, call)[1]
  /\ UNCHANGED <<createVars, lifeVars, scaleVars, statsVars>>

\* The dispatcher finds the cast shape to be a RotatedTranslatedShape.
CastRotatedTranslatedShapeVsShape ==
  /\ call.kind = "cast"
  /\ call.shapeCast.mShape \in DOMAIN shapes
  /\ bridged' = [kind |-> "CastRotatedTranslated", given |-> call,
                 invoked |-> sCastRotatedTranslatedShapeVsShape(shapes, call)]
  /\ call' = sCastRotatedTranslatedShapeVsShape(shapes, call)[1]
  /\ UNCHANGED <<createVars, lifeVars, scaleVars, statsVars>>

NextBridge ==
  \/ CollideShapeVsShape
  \/ CastShapeVsShape
  \/ CollideRotatedTranslatedVsShape
  \/ CollideShapeVsRotatedTranslated
  \/ CastRotatedTranslatedShapeVsShape

SpecBridge == InitBridge /\ [][NextBridge]_vars

\* ----------------------------------------------------- claims on SpecBridge
\* The operand's transform times the decorator's rotation matrix.
TimesRotation(transform, obj) == Mat44Mul(transform, Mat44sRotation(obj.mRotation))

\* C9: a bridge invokes the dispatcher once, with the decorator's inner shape
\* in the decorator's place, that operand's transform times the rotation
\* matrix and its scale through TransformScale, and everything else as given;
\* the cast bridge does so for the cast shape and keeps the direction.
C9_BridgesSubstituteInner ==
  /\ bridged.kind = "RotatedTranslatedVsShape" =>
       bridged.invoked =
         << [bridged.given EXCEPT
               !.shape1 = shapes[bridged.given.shape1].mInnerShape,
               !.scale1 = TransformScale(shapes[bridged.given.shape1], @),
               !.transform1 = TimesRotation(@, shapes[bridged.given.shape1])] >>
  /\ bridged.kind = "ShapeVsRotatedTranslated" =>
       bridged.invoked =
         << [bridged.given EXCEPT
               !.shape2 = shapes[bridged.given.shape2].mInnerShape,
               !.scale2 = TransformScale(shapes[bridged.given.shape2], @),
               !.transform2 = TimesRotation(@, shapes[bridged.given.shape2])] >>
  /\ bridged.kind = "CastRotatedTranslated" =>
       bridged.invoked =
         << [bridged.given EXCEPT
               !.shapeCast.mShape = shapes[bridged.given.shapeCast.mShape].mInnerShape,
               !.shapeCast.mScale = TransformScale(shapes[bridged.given.shapeCast.mShape], @),
               !.shapeCast.mCenterOfMassStart =
                  TimesRotation(@, shapes[bridged.given.shapeCast.mShape])] >>

\* The second-operand bridge has run on a decorator whose rotation changes
\* both the scale and the transform it hands on.
C9_Witness ==
  /\ bridged.kind = "ShapeVsRotatedTranslated"
  /\ bridged.invoked[1].scale2 # bridged.given.scale2
  /\ bridged.invoked[1].transform2 # bridged.given.transform2
  /\ bridged.invoked[1].scale1 = bridged.given.scale1
  /\ bridged.given.shape1 \in DOMAIN shapes

====
